---- MODULE Spec2Model ----
(***************************************************************************)
(* Model of astral-power-monitoring: AstralPowerMonitor (src/monitor.rs)   *)
(* and the polling program (src/main.rs).                                  *)
(*                                                                         *)
(* The NVAPI driver is the environment: every call into it returns one of  *)
(* the answers enumerated in the driver sets below.  An f32 is a pair      *)
(* <<m, e>> with value m * 2^e, m = 0 or 2^23 <= m < 2^24.                 *)
(***************************************************************************)
EXTENDS Integers, Sequences, FiniteSets, TLC

\* ------------------------------------------------------------------------
\* Program constants
\* ------------------------------------------------------------------------
IT8915_I2C_ADDRESS == 86

IT8915_POWER_REG_START == 128

IT8915_POWER_DATA_SIZE == 24

\* size of the handle array; the constant comes from nvapi_sys
NVAPI_MAX_PHYSICAL_GPUS == 32

NVAPI_OK == 0

\* stands for every status other than NVAPI_OK
NVAPI_ERROR == -1

U16Max == 65535

\* 0.001f32 = F32MILLI_M * 2^F32MILLI_E (bit pattern 0x3A83126F)
F32MILLI_M == 8589935

F32MILLI_E == -33

\* ------------------------------------------------------------------------
\* f32 arithmetic used by the decoder
\* ------------------------------------------------------------------------
F32Zero == <<0, 0>>

\* number of significant bits of n, 0 <= n < 2^31, by halving the width
BitLen2(n) == IF n < 2 THEN n ELSE 2

BitLen4(n) == IF n < 4 THEN BitLen2(n) ELSE 2 + BitLen2(n \div 4)

BitLen8(n) == IF n < 16 THEN BitLen4(n) ELSE 4 + BitLen4(n \div 16)

BitLen16(n) == IF n < 256 THEN BitLen8(n) ELSE 8 + BitLen8(n \div 256)

BitLen(n) == IF n < 65536 THEN BitLen16(n) ELSE 16 + BitLen16(n \div 65536)

\* round-to-nearest-even of (q + rem/(2*half)) * 2^e to a 24-bit mantissa
F32Pack(q, rem, half, e) ==
    LET up == rem > half \/ (rem = half /\ q % 2 = 1)
        m  == IF up THEN q + 1 ELSE q
    IN  IF m = 2^24 THEN <<2^23, e + 1>> ELSE <<m, e>>

\* (x as f32) * 0.001 for a u16 x.  The conversion of x is exact; the
\* product x * F32MILLI_M (up to 40 bits) is kept as A * 2^12 + B and
\* rounded once to 24 bits.
F32FromU16MulMilli(x) ==
    IF x = 0 THEN F32Zero
    ELSE
      LET H == x * (F32MILLI_M \div 4096)
          L == x * (F32MILLI_M % 4096)
          A == H + (L \div 4096)
          B == L % 4096
          s == BitLen(A) + 12 - 24
      IN  IF s = 0 THEN <<A * 4096 + B, F32MILLI_E>>
          ELSE IF s <= 12
            THEN F32Pack(A * 2^(12 - s) + (B \div 2^s), B % 2^s,
                         2^(s - 1), F32MILLI_E + s)
            ELSE F32Pack(A \div 2^(s - 12), (A % 2^(s - 12)) * 4096 + B,
                         2^(s - 1), F32MILLI_E + s)

\* ------------------------------------------------------------------------
\* The driver (environment)
\* ------------------------------------------------------------------------
\* status codes NvAPI_EnumPhysicalGPUs / NvAPI_I2CReadEx may return
DriverStatuses == {NVAPI_OK, NVAPI_ERROR}

\* secondary transaction status written through the i2c_status out-pointer
I2cStatuses == {0, 1}

\* first handle value of an enumeration; the i-th handle is base + i
DriverHandleBases == {100, 200}

\* 32-bit signed bounds of a gpu_index
I32Min == -2147483647 - 1


\* the handle array after NvAPI_EnumPhysicalGPUs: count handles, rest zeroed
EnumHandles(base, count) ==
    [i \in 0..(NVAPI_MAX_PHYSICAL_GPUS - 1) |-> IF i < count THEN base + i ELSE 0]

EnumAnswers ==
    { [status |-> st, gpu_count |-> n, gpu_handles |-> EnumHandles(b, n)] :
        st \in DriverStatuses, n \in 0..NVAPI_MAX_PHYSICAL_GPUS,
        b \in DriverHandleBases }

\* a frame of 24 bytes from twelve 16-bit words, hardware rail order:
\* <<v0, c0, v1, c1, ..., v5, c5>>, each word big-endian
FrameOfWords(ws) ==
    [o \in 0..(IT8915_POWER_DATA_SIZE - 1) |->
        IF o % 2 = 0 THEN ws[(o \div 2) + 1] \div 256
                     ELSE ws[(o \div 2) + 1] % 256]

FrameWords ==
    << <<10000, 0, 65535, 1, 125, 9000, 6000, 255, 65280, 258, 32768, 32767>>,
       <<1000, 1000, 2000, 2000, 3000, 3000, 4000, 4000, 5000, 5000, 6000, 6000>>,
       <<0, 0, 0, 0, 0, 0, 0, 0, 0, 0, 0, 0>>,
       <<0, 0, 0, 0, 0, 0, 0, 0, 2500, 6000, 3000, 3000>>,
       <<12000, 8500, 11990, 9100, 12010, 5900, 11800, 6100, 12100, 40, 3, 2>>,
       <<513, 1027, 1541, 2055, 2569, 3083, 3597, 4111, 4625, 5139, 5653, 6167>> >>

\* how many of the FrameWords rows the driver may answer with
NumFrames == 2

Frames == { FrameOfWords(FrameWords[i]) : i \in 1..NumFrames }

\* what NvAPI_I2CReadEx does to one transaction: its status, the secondary
\* status, and the bytes left in the data buffer
I2cAnswers ==
    { [status |-> st, i2c_status |-> is, data |-> f] :
        st \in DriverStatuses, is \in I2cStatuses, f \in Frames }

\* ------------------------------------------------------------------------
\* AstralPowerMonitor (monitor.rs)
\* ------------------------------------------------------------------------
Ok == [kind |-> "ok", err |-> <<>>]

Err(e) == [kind |-> "err", err |-> e]

Panic == [kind |-> "panic", err |-> <<>>]

\* new() taking one handle too few from the array
AstralPowerMonitor_new_short(answer) ==
    IF answer.status # NVAPI_OK
      THEN [res |-> Err(<<"Failed to enumerate GPUs", answer.status>>),
            gpu_handles |-> <<>>]
    ELSE IF answer.gpu_count = 0
      THEN [res |-> Err(<<"No NVIDIA GPUs found">>), gpu_handles |-> <<>>]
    ELSE [res |-> Ok,
          gpu_handles |-> [i \in 1..(answer.gpu_count - 1) |-> answer.gpu_handles[i - 1]]]

\* new() without the zero-device check
AstralPowerMonitor_new_nozero(answer) ==
    IF answer.status # NVAPI_OK
      THEN [res |-> Err(<<"Failed to enumerate GPUs", answer.status>>),
            gpu_handles |-> <<>>]
    ELSE [res |-> Ok,
          gpu_handles |-> [i \in 1..answer.gpu_count |-> answer.gpu_handles[i - 1]]]

\* AstralPowerMonitor::new(): answer is the driver's enumeration result
AstralPowerMonitor_new(answer) ==
    IF answer.status # NVAPI_OK
      THEN [res |-> Err(<<"Failed to enumerate GPUs", answer.status>>),
            gpu_handles |-> <<>>]
    ELSE IF answer.gpu_count = 0
      THEN [res |-> Err(<<"No NVIDIA GPUs found">>), gpu_handles |-> <<>>]
    ELSE IF answer.gpu_count > NVAPI_MAX_PHYSICAL_GPUS
      THEN [res |-> Panic, gpu_handles |-> <<>>]
    ELSE [res |-> Ok,
          gpu_handles |-> [i \in 1..answer.gpu_count |-> answer.gpu_handles[i - 1]]]

\* the descriptor handed to NvAPI_I2CReadEx
I2cInfo(gpu_handle, reg_addr, len) ==
    [gpu_handle |-> gpu_handle, i2cDevAddress |-> IT8915_I2C_ADDRESS, reg_addr |-> reg_addr,
     regAddrSize |-> 1, pbRead |-> len, portId |-> 1]

\* read_i2c_data ignoring the returned status
read_i2c_data_unchecked(gpu_handles, gpu_index, reg_addr, len, answer) ==
    IF gpu_index < 0 \/ gpu_index >= Len(gpu_handles)
      THEN [res |-> Panic, i2c |-> <<>>, data |-> [o \in 0..(len - 1) |-> 0]]
    ELSE [res |-> Ok,
          i2c |-> <<I2cInfo(gpu_handles[gpu_index + 1], reg_addr, len)>>,
          data |-> answer.data]

\* read_i2c_data issuing the transaction a second time after a failure
read_i2c_data_retry(gpu_handles, gpu_index, reg_addr, len, answer) ==
    IF gpu_index < 0 \/ gpu_index >= Len(gpu_handles)
      THEN [res |-> Panic, i2c |-> <<>>, data |-> [o \in 0..(len - 1) |-> 0]]
    ELSE
      LET info == I2cInfo(gpu_handles[gpu_index + 1], reg_addr, len)
      IN  IF answer.status # NVAPI_OK
            THEN [res |-> Err(<<"I2C read failed", answer.status>>),
                  i2c |-> <<info, info>>, data |-> answer.data]
            ELSE [res |-> Ok, i2c |-> <<info>>, data |-> answer.data]

\* read_i2c_data: i2c is the sequence of transactions issued, data the
\* buffer contents afterwards
read_i2c_data(gpu_handles, gpu_index, reg_addr, len, answer) ==
    IF gpu_index < 0 \/ gpu_index >= Len(gpu_handles)
      THEN [res |-> Panic, i2c |-> <<>>, data |-> [o \in 0..(len - 1) |-> 0]]
    ELSE
      LET info == I2cInfo(gpu_handles[gpu_index + 1], reg_addr, len)
      IN  IF answer.status # NVAPI_OK
            THEN [res |-> Err(<<"I2C read failed", answer.status>>),
                  i2c |-> <<info>>, data |-> answer.data]
            ELSE [res |-> Ok, i2c |-> <<info>>, data |-> answer.data]

\* the two bytes taken in little-endian order
read_u16_le(raw_data, offset) ==
    ((raw_data[offset + 1] * 256) % 65536) + raw_data[offset]

\* big-endian u16 at offset of raw_data
read_u16_be(raw_data, offset) ==
    ((raw_data[offset] * 256) % 65536) + raw_data[offset + 1]

\* usize subtraction; -1 stands for the underflow outcome
UsizeSub(a, b) == IF a >= b THEN a - b ELSE -1

\* the index check without its negative half
invalid_gpu_index_upper_only(gpu_handles, gpu_index) ==
    gpu_index >= Len(gpu_handles)

\* line 129: the index check of get_power_status
invalid_gpu_index(gpu_handles, gpu_index) ==
    gpu_index < 0 \/ gpu_index >= Len(gpu_handles)

\* the loop keeping the old entry where the raw value is zero
scale_into_skip_zero(buffer, rail_values) ==
    [i \in DOMAIN buffer |->
        IF i \in 0..5 /\ rail_values[i] # 0
          THEN F32FromU16MulMilli(rail_values[i]) ELSE buffer[i]]

\* lines 173-176: for i in 0..6 { buffer[i] = (rail_values[i] as f32) * 0.001 }
scale_into(buffer, rail_values) ==
    [i \in DOMAIN buffer |->
        IF i \in 0..5 THEN F32FromU16MulMilli(rail_values[i]) ELSE buffer[i]]

\* get_power_status: the result and the two caller buffers after the call
get_power_status(gpu_handles, gpu_index, voltage_buffer, current_buffer, answer) ==
    IF invalid_gpu_index(gpu_handles, gpu_index)
      THEN [res |-> Err(<<"Invalid GPU index", gpu_index,
                          UsizeSub(Len(gpu_handles), 1)>>),
            i2c |-> <<>>,
            voltage_buffer |-> voltage_buffer, current_buffer |-> current_buffer]
    ELSE
      LET r == read_i2c_data(gpu_handles, gpu_index, IT8915_POWER_REG_START,
                             IT8915_POWER_DATA_SIZE, answer)
          rail_voltages == [i \in 0..5 |-> read_u16_be(r.data, 20 - 4 * i)]
          rail_currents == [i \in 0..5 |-> read_u16_be(r.data, 22 - 4 * i)]
      IN  IF r.res.kind # "ok"
            THEN [res |-> r.res, i2c |-> r.i2c,
                  voltage_buffer |-> voltage_buffer,
                  current_buffer |-> current_buffer]
            ELSE [res |-> Ok, i2c |-> r.i2c,
                  voltage_buffer |-> scale_into(voltage_buffer, rail_voltages),
                  current_buffer |-> scale_into(current_buffer, rail_currents)]

gpu_count(gpu_handles) == Len(gpu_handles)

ZeroBuffer == [i \in 0..5 |-> F32Zero]

\* get_power_status_vec: fresh zeroed buffers, returned only on success
get_power_status_vec(gpu_handles, gpu_idx, answer) ==
    LET r == get_power_status(gpu_handles, gpu_idx, ZeroBuffer, ZeroBuffer, answer)
    IN  IF r.res.kind # "ok"
          THEN [res |-> r.res, i2c |-> r.i2c, out |-> <<>>]
          ELSE [res |-> Ok, i2c |-> r.i2c,
                out |-> <<r.voltage_buffer, r.current_buffer>>]

\* ------------------------------------------------------------------------
\* State
\* ------------------------------------------------------------------------
VARIABLES
    pc,              \* position of the program / of the client of the monitor
    enum_answer,     \* what NvAPI_EnumPhysicalGPUs answered in new()
    new_res,         \* result of AstralPowerMonitor::new()
    gpu_handles,     \* AstralPowerMonitor.gpu_handles
    voltages,        \* caller's voltage buffers, one per buffer slot
    currents,        \* caller's current buffers, one per buffer slot
    last_call,       \* the most recent get_power_status(_vec) call
    last_ok,         \* per slot: frame of the most recent successful poll
    last_count,      \* last value gpu_count() returned, -1 before any
    rendered,        \* readings of the last frame printed, <<>> before any
    first_iteration, \* main's first_iteration flag
    stderr,          \* diagnostics written to standard error
    exit_status      \* process exit status, -1 while running

vars == <<pc, enum_answer, new_res, gpu_handles, voltages, currents, last_call,
          last_ok, last_count, rendered, first_iteration, stderr, exit_status>>

\* buffer pairs a caller holds; main.rs uses slot 1 only
Slots == {1, 2}

NoAnswer == [status |-> NVAPI_OK, i2c_status |-> 0, data |-> <<>>]

NoCall ==
    [op |-> "none", slot |-> 0, gpu_index |-> 0, answer |-> NoAnswer,
     res |-> Ok, i2c |-> <<>>, out |-> <<>>]

NoEnum == [status |-> NVAPI_OK, gpu_count |-> 0, gpu_handles |-> <<>>]

Init ==
    /\ pc = "start"
    /\ enum_answer = NoEnum
    /\ new_res = Ok
    /\ gpu_handles = <<>>
    /\ voltages = [s \in Slots |-> ZeroBuffer]
    /\ currents = [s \in Slots |-> ZeroBuffer]
    /\ last_call = NoCall
    /\ last_ok = [s \in Slots |-> <<>>]
    /\ last_count = -1
    /\ rendered = <<>>
    /\ first_iteration = TRUE
    /\ stderr = <<>>
    /\ exit_status = -1

\* ------------------------------------------------------------------------
\* main (main.rs)
\* ------------------------------------------------------------------------
\* lines 10-22: new(), then either the diagnostic and exit(1) or the banner
MainNew ==
    /\ pc = "start"
    /\ \E a \in EnumAnswers :
         \E m \in {AstralPowerMonitor_new(a)} :
             /\ enum_answer' = a
             /\ new_res' = m.res
             /\ gpu_handles' = m.gpu_handles
             /\ IF m.res.kind = "ok"
                  THEN /\ last_count' = gpu_count(m.gpu_handles)
                       /\ pc' = "poll"
                       /\ UNCHANGED <<stderr, exit_status>>
                ELSE IF m.res.kind = "err"
                  THEN /\ stderr' = Append(stderr, <<"Error initializing NVAPI", m.res.err>>)
                       /\ exit_status' = 1
                       /\ pc' = "exit"
                       /\ UNCHANGED last_count
                ELSE   /\ stderr' = Append(stderr, <<"panic">>)
                       /\ exit_status' = 101
                       /\ pc' = "exit"
                       /\ UNCHANGED last_count
    /\ UNCHANGED <<voltages, currents, last_call, last_ok, rendered, first_iteration>>

\* the loop going on to the next iteration after a failed poll
MainPoll_continue ==
    /\ pc = "poll"
    /\ \E a \in I2cAnswers :
         \E r \in {get_power_status(gpu_handles, 0, voltages[1], currents[1], a)} :
             /\ voltages' = [voltages EXCEPT ![1] = r.voltage_buffer]
             /\ currents' = [currents EXCEPT ![1] = r.current_buffer]
             /\ last_call' = [op |-> "get_power_status", slot |-> 1, gpu_index |-> 0,
                              answer |-> a, res |-> r.res, i2c |-> r.i2c, out |-> <<>>]
             /\ IF r.res.kind = "ok"
                  THEN /\ rendered' = [voltages |-> r.voltage_buffer,
                                       currents |-> r.current_buffer]
                       /\ first_iteration' = FALSE
                       /\ last_ok' = [last_ok EXCEPT ![1] = a.data]
                       /\ pc' = "sleep"
                       /\ UNCHANGED <<stderr, exit_status>>
                ELSE IF r.res.kind = "err"
                  THEN /\ stderr' = Append(stderr, <<"Error", r.res.err>>)
                       /\ pc' = "sleep"
                       /\ UNCHANGED <<rendered, first_iteration, last_ok, exit_status>>
                ELSE   /\ stderr' = Append(stderr, <<"panic">>)
                       /\ exit_status' = 101
                       /\ pc' = "exit"
                       /\ UNCHANGED <<rendered, first_iteration, last_ok>>
    /\ UNCHANGED <<enum_answer, new_res, gpu_handles, last_count>>

\* lines 31-73: one poll of GPU 0 into main's buffers, then the frame or
\* the diagnostic and break
\* (a frame is recorded as the readings it prints; the per-pin power, the
\* total and the ANSI colouring are derived from them and not kept)
MainPoll ==
    /\ pc = "poll"
    /\ \E a \in I2cAnswers :
         \E r \in {get_power_status(gpu_handles, 0, voltages[1], currents[1], a)} :
             /\ voltages' = [voltages EXCEPT ![1] = r.voltage_buffer]
             /\ currents' = [currents EXCEPT ![1] = r.current_buffer]
             /\ last_call' = [op |-> "get_power_status", slot |-> 1, gpu_index |-> 0,
                              answer |-> a, res |-> r.res, i2c |-> r.i2c, out |-> <<>>]
             /\ IF r.res.kind = "ok"
                  THEN /\ rendered' = [voltages |-> r.voltage_buffer,
                                       currents |-> r.current_buffer]
                       /\ first_iteration' = FALSE
                       /\ last_ok' = [last_ok EXCEPT ![1] = a.data]
                       /\ pc' = "sleep"
                       /\ UNCHANGED <<stderr, exit_status>>
                ELSE IF r.res.kind = "err"
                  THEN /\ stderr' = Append(stderr, <<"Error", r.res.err>>)
                       /\ pc' = "after_loop"
                       /\ UNCHANGED <<rendered, first_iteration, last_ok, exit_status>>
                ELSE   /\ stderr' = Append(stderr, <<"panic">>)
                       /\ exit_status' = 101
                       /\ pc' = "exit"
                       /\ UNCHANGED <<rendered, first_iteration, last_ok>>
    /\ UNCHANGED <<enum_answer, new_res, gpu_handles, last_count>>

\* line 75: sleep one second, back to the top of the loop
MainSleep ==
    /\ pc = "sleep"
    /\ pc' = "poll"
    /\ UNCHANGED <<enum_answer, new_res, gpu_handles, voltages, currents, last_call,
                   last_ok, last_count, rendered, first_iteration, stderr, exit_status>>

\* lines 71-77: after the break main returns, so the process exits with 0
MainReturn ==
    /\ pc = "after_loop"
    /\ pc' = "exit"
    /\ exit_status' = 0
    /\ UNCHANGED <<enum_answer, new_res, gpu_handles, voltages, currents, last_call,
                   last_ok, last_count, rendered, first_iteration, stderr>>

Next == MainNew \/ MainPoll \/ MainSleep \/ MainReturn

Spec == Init /\ [][Next]_vars

\* ------------------------------------------------------------------------
\* Any client of AstralPowerMonitor
\* ------------------------------------------------------------------------
\* device indices a client passes, for a monitor of n handles
IndexInputs(n) == {I32Min, -1, 0, n - 1, n}

\* enumerations a client's driver answers with: the boundary counts
ApiEnumAnswers ==
    { a \in EnumAnswers : /\ a.gpu_count \in {0, 1, NVAPI_MAX_PHYSICAL_GPUS}
                           /\ a.gpu_handles[0] \in {0, 100} }

ApiNew ==
    /\ pc = "start"
    /\ \E a \in ApiEnumAnswers :
         \E m \in {AstralPowerMonitor_new(a)} :
             /\ enum_answer' = a
             /\ new_res' = m.res
             /\ gpu_handles' = m.gpu_handles
             /\ pc' = IF m.res.kind = "ok" THEN "ready"
                      ELSE IF m.res.kind = "err" THEN "failed" ELSE "panicked"
    /\ UNCHANGED <<voltages, currents, last_call, last_ok, last_count, rendered,
                   first_iteration, stderr, exit_status>>

ApiGetPowerStatus ==
    /\ pc = "ready"
    /\ \E s \in Slots, gpu_index \in IndexInputs(Len(gpu_handles)), a \in I2cAnswers :
         \E r \in {get_power_status(gpu_handles, gpu_index, voltages[s], currents[s], a)} :
             /\ voltages' = [voltages EXCEPT ![s] = r.voltage_buffer]
             /\ currents' = [currents EXCEPT ![s] = r.current_buffer]
             /\ last_call' = [op |-> "get_power_status", slot |-> s,
                              gpu_index |-> gpu_index, answer |-> a,
                              res |-> r.res, i2c |-> r.i2c, out |-> <<>>]
             /\ last_ok' = IF r.res.kind = "ok" THEN [last_ok EXCEPT ![s] = a.data]
                           ELSE last_ok
             /\ pc' = IF r.res.kind = "panic" THEN "panicked" ELSE "ready"
    /\ UNCHANGED <<enum_answer, new_res, gpu_handles, last_count, rendered,
                   first_iteration, stderr, exit_status>>

ApiGetPowerStatusVec ==
    /\ pc = "ready"
    /\ \E gpu_idx \in IndexInputs(Len(gpu_handles)), a \in I2cAnswers :
         \E r \in {get_power_status_vec(gpu_handles, gpu_idx, a)} :
             /\ last_call' = [op |-> "get_power_status_vec", slot |-> 0,
                              gpu_index |-> gpu_idx, answer |-> a,
                              res |-> r.res, i2c |-> r.i2c, out |-> r.out]
             /\ pc' = IF r.res.kind = "panic" THEN "panicked" ELSE "ready"
    /\ UNCHANGED <<enum_answer, new_res, gpu_handles, voltages, currents, last_ok,
                   last_count, rendered, first_iteration, stderr, exit_status>>

ApiGpuCount ==
    /\ pc = "ready"
    /\ last_count' = gpu_count(gpu_handles)
    /\ UNCHANGED <<pc, enum_answer, new_res, gpu_handles, voltages, currents,
                   last_call, last_ok, rendered, first_iteration, stderr, exit_status>>

NextApi == ApiNew \/ ApiGetPowerStatus \/ ApiGetPowerStatusVec \/ ApiGpuCount

SpecApi == Init /\ [][NextApi]_vars

\* ------------------------------------------------------------------------
\* The decoder on its own: one successful poll of a one-GPU monitor, over a
\* family of frames in which every 16-bit value occurs in every field
\* ------------------------------------------------------------------------
DecodeFrame(w) ==
    FrameOfWords([k \in 1..12 |-> (w + 5449 * (k - 1)) % (U16Max + 1)])

InitDecode ==
    /\ pc = "ready"
    /\ enum_answer = [status |-> NVAPI_OK, gpu_count |-> 1,
                      gpu_handles |-> EnumHandles(100, 1)]
    /\ new_res = Ok
    /\ gpu_handles = AstralPowerMonitor_new(enum_answer).gpu_handles
    /\ voltages = [s \in Slots |-> ZeroBuffer]
    /\ currents = [s \in Slots |-> ZeroBuffer]
    /\ last_call = NoCall
    /\ last_ok = [s \in Slots |-> <<>>]
    /\ last_count = -1
    /\ rendered = <<>>
    /\ first_iteration = TRUE
    /\ stderr = <<>>
    /\ exit_status = -1

DecodePoll ==
    /\ pc = "ready"
    /\ last_call.op = "none"
    /\ \E w \in 0..U16Max :
         \E a \in {[status |-> NVAPI_OK, i2c_status |-> 0, data |-> DecodeFrame(w)]} :
         \E r \in {get_power_status(gpu_handles, 0, voltages[1], currents[1], a)} :
             /\ voltages' = [voltages EXCEPT ![1] = r.voltage_buffer]
             /\ currents' = [currents EXCEPT ![1] = r.current_buffer]
             /\ last_call' = [op |-> "get_power_status", slot |-> 1, gpu_index |-> 0,
                              answer |-> a, res |-> r.res, i2c |-> r.i2c, out |-> <<>>]
             /\ last_ok' = IF r.res.kind = "ok" THEN [last_ok EXCEPT ![1] = a.data]
                           ELSE last_ok
             /\ pc' = IF r.res.kind = "panic" THEN "panicked" ELSE "ready"
    /\ UNCHANGED <<enum_answer, new_res, gpu_handles, last_count, rendered,
                   first_iteration, stderr, exit_status>>

NextDecode == DecodePoll

SpecDecode == InitDecode /\ [][NextDecode]_vars

\* ------------------------------------------------------------------------
\* Reference values used by the properties
\* ------------------------------------------------------------------------
\* raw millivolts / milliamps of pin p in frame f: hardware rail 5 - p
PinVoltageRaw(f, p) == 256 * f[4 * (5 - p)] + f[4 * (5 - p) + 1]

PinCurrentRaw(f, p) == 256 * f[4 * (5 - p) + 2] + f[4 * (5 - p) + 3]

RefReadings(f) ==
    [voltages |-> [p \in 0..5 |-> F32FromU16MulMilli(PinVoltageRaw(f, p))],
     currents |-> [p \in 0..5 |-> F32FromU16MulMilli(PinCurrentRaw(f, p))]]

ZeroReadings == [voltages |-> ZeroBuffer, currents |-> ZeroBuffer]

SlotReadings(s) == [voltages |-> voltages[s], currents |-> currents[s]]

\* the f32 v = <<m, e>> times 1000, rounded to the nearest integer
\* (m * 1000 is kept as A * 2^12 + B; needs e <= -13)
Millis(v) ==
    IF v[1] = 0 THEN 0
    ELSE LET A == (v[1] \div 4096) * 1000 + (((v[1] % 4096) * 1000) \div 4096)
             j == (0 - v[2]) - 12
         IN  (A \div 2^j) + (IF A % 2^j >= 2^(j - 1) THEN 1 ELSE 0)

IsPoll == last_call.op \in {"get_power_status", "get_power_status_vec"}

IndexInRange == 0 <= last_call.gpu_index /\ last_call.gpu_index < Len(gpu_handles)

\* ------------------------------------------------------------------------
\* Properties
\* ------------------------------------------------------------------------
\* C1: whenever the program has terminated, it did so with a non-zero exit
\* status and a diagnostic on standard error, and one of the two fatal cases
\* happened (new() failed, or a poll's get_power_status returned an error).
C1_FatalExitNonZero ==
    pc = "exit" =>
        /\ exit_status # 0
        /\ stderr # <<>>
        /\ (new_res.kind = "err" \/ last_call.res.kind = "err")

\* C2: a poll whose transaction the driver reported as non-success, by the
\* returned status or by the secondary status, returns the transaction
\* error; a poll that returns Ok decoded the bytes of a transaction that
\* both statuses reported as successful.
C2_NoPartialSuccess ==
    (last_call.op = "get_power_status" /\ last_call.i2c # <<>>) =>
        /\ (last_call.answer.status # NVAPI_OK \/ last_call.answer.i2c_status # 0)
              => (/\ last_call.res.kind = "err"
                  /\ last_call.res.err[1] = "I2C read failed")
        /\ last_call.res.kind = "ok"
              => (/\ last_call.answer.status = NVAPI_OK
                  /\ last_call.answer.i2c_status = 0
                  /\ SlotReadings(last_call.slot) = RefReadings(last_call.answer.data))

\* C3: a call with a device index outside [0, gpu_count) returns the
\* invalid-index error and issues no I2C transaction ...
C3_Rejected ==
    (IsPoll /\ ~IndexInRange) =>
        /\ last_call.res.kind = "err"
        /\ last_call.res.err[1] = "Invalid GPU index"
        /\ last_call.res.err[2] = last_call.gpu_index
        /\ last_call.i2c = <<>>

\* ... and leaves both caller buffers as they were.
C3_Step ==
    (/\ last_call'.op = "get_power_status"
     /\ (last_call'.gpu_index < 0 \/ last_call'.gpu_index >= Len(gpu_handles')))
        => (voltages' = voltages /\ currents' = currents)

\* C3: out-of-range indices, negative ones included, are rejected with the
\* invalid-index error, without a transaction and without touching the
\* caller's buffers.
C3_InvalidIndexRejected == []C3_Rejected /\ [][C3_Step]_vars

C3_Witness ==
    /\ last_call.op = "get_power_status"
    /\ last_call.gpu_index = -1
    /\ last_call.res.kind = "err"
    /\ last_call.i2c = <<>>
    /\ voltages[last_call.slot] # ZeroBuffer

\* a get_power_status call whose transaction failed (NvAPI_I2CReadEx returned
\* a status other than NVAPI_OK) changes no buffer
C4_Step ==
    (/\ last_call'.op = "get_power_status"
     /\ last_call'.i2c # <<>>
     /\ last_call'.answer.status # NVAPI_OK)
        => (voltages' = voltages /\ currents' = currents)

\* every buffer pair holds the readings of its most recent successful poll,
\* or its initial zeros
C4_Held ==
    \A s \in Slots :
        SlotReadings(s) = IF last_ok[s] = <<>> THEN ZeroReadings
                          ELSE RefReadings(last_ok[s])

C5_PinDecoding ==
    (last_call.op = "get_power_status" /\ last_call.res.kind = "ok") =>
        \A p \in 0..5 :
            LET f  == last_call.answer.data
                mv == PinVoltageRaw(f, p)
                ma == PinCurrentRaw(f, p)
                v  == voltages[last_call.slot][p]
                c  == currents[last_call.slot][p]
            IN  /\ mv \in 0..U16Max /\ ma \in 0..U16Max
                /\ v = F32FromU16MulMilli(mv) /\ c = F32FromU16MulMilli(ma)
                /\ Millis(v) = mv /\ Millis(c) = ma
                /\ (mv = 10000 => v = <<10485760, -20>>)
                /\ (ma = 10000 => c = <<10485760, -20>>)
                /\ (mv = 0 => v = F32Zero)
                /\ (ma = 0 => c = F32Zero)

C5_Witness ==
    /\ last_call.op = "get_power_status"
    /\ last_call.res.kind = "ok"
    /\ PinVoltageRaw(last_call.answer.data, 0) = 10000
    /\ voltages[1][0] = <<10485760, -20>>
    /\ currents[1][0] # F32Zero

\* an answer of the driver that lets every transaction succeed
ProbeAnswer ==
    [status |-> NVAPI_OK, i2c_status |-> 0, data |-> FrameOfWords(FrameWords[1])]

\* C6: new() fails with the enumeration error when the driver's status is
\* not success, with the no-device error when the count is 0, and for a
\* count N in 1..32 returns the first N handles in order, so that
\* gpu_count() is N and exactly the indices 0..N-1 are accepted.
C6_NewOutcome ==
    pc # "start" =>
        /\ enum_answer.status # NVAPI_OK
              => new_res = Err(<<"Failed to enumerate GPUs", enum_answer.status>>)
        /\ (enum_answer.status = NVAPI_OK /\ enum_answer.gpu_count = 0)
              => new_res = Err(<<"No NVIDIA GPUs found">>)
        /\ (/\ enum_answer.status = NVAPI_OK
            /\ enum_answer.gpu_count \in 1..NVAPI_MAX_PHYSICAL_GPUS)
              => (/\ new_res = Ok
                  /\ Len(gpu_handles) = enum_answer.gpu_count
                  /\ \A i \in 1..enum_answer.gpu_count :
                        gpu_handles[i] = enum_answer.gpu_handles[i - 1]
                  /\ gpu_count(gpu_handles) = enum_answer.gpu_count
                  /\ last_count = enum_answer.gpu_count
                  /\ \A i \in (-1)..(NVAPI_MAX_PHYSICAL_GPUS + 1) :
                        (get_power_status(gpu_handles, i, ZeroBuffer, ZeroBuffer,
                                          ProbeAnswer).res.kind = "ok")
                          <=> (0 <= i /\ i < enum_answer.gpu_count))

C6_Witness ==
    /\ pc = "poll"
    /\ new_res = Ok
    /\ enum_answer.gpu_count = NVAPI_MAX_PHYSICAL_GPUS
    /\ Len(gpu_handles) = NVAPI_MAX_PHYSICAL_GPUS
    /\ gpu_handles[NVAPI_MAX_PHYSICAL_GPUS] = 231

\* once a poll has returned an error nothing is polled or rendered any more
C7_Step ==
    last_call.res.kind = "err"
        => UNCHANGED <<last_call, rendered, voltages, currents, last_ok>>

\* a frame is rendered only in the step of a successful poll, from that
\* poll's readings
C7_RenderStep ==
    rendered' # rendered =>
        /\ pc = "poll"
        /\ last_call'.res.kind = "ok"
        /\ rendered' = RefReadings(last_call'.answer.data)
        /\ rendered' = [voltages |-> voltages'[1], currents |-> currents'[1]]

C7_Rendered ==
    rendered # <<>> => (last_ok[1] # <<>> /\ rendered = RefReadings(last_ok[1]))

\* C7: in the polling loop a failed poll is fatal: after it no transaction
\* is issued and no frame is rendered, so every frame rendered shows the
\* readings of the successful poll right before it.
C7_FailureIsFatal == []C7_Rendered /\ [][C7_Step /\ C7_RenderStep]_vars

C7_Witness ==
    /\ pc = "after_loop"
    /\ last_call.res.kind = "err"
    /\ rendered # <<>>
    /\ last_call.answer.data # last_ok[1]

C9_FrameDeterminesReadings ==
    /\ \A s, t \in Slots :
          (last_ok[s] # <<>> /\ last_ok[s] = last_ok[t])
              => SlotReadings(s) = SlotReadings(t)
    /\ \A s \in Slots :
          (/\ last_call.op = "get_power_status_vec"
           /\ last_call.res.kind = "ok"
           /\ last_ok[s] = last_call.answer.data)
              => last_call.out = <<voltages[s], currents[s]>>

C9_Witness ==
    /\ last_ok[1] # <<>>
    /\ last_ok[1] = last_ok[2]
    /\ voltages[1] = voltages[2]
    /\ voltages[1] # ZeroBuffer
    /\ last_call.op = "get_power_status"
    /\ last_call.slot = 1
    /\ last_call.res.kind = "err"
    /\ last_call.i2c # <<>>
    /\ last_call.answer.data # last_ok[1]

\* the handle list of a constructed monitor
C10_Handles ==
    pc = "ready" =>
        /\ Len(gpu_handles) >= 1
        /\ Len(gpu_handles) <= NVAPI_MAX_PHYSICAL_GPUS
        /\ gpu_handles = [i \in 1..enum_answer.gpu_count |-> enum_answer.gpu_handles[i - 1]]
        /\ last_count # -1 => last_count = Len(gpu_handles)
        /\ (IsPoll /\ ~IndexInRange /\ last_call.res.kind = "err")
              => (/\ last_call.res.err[3] = Len(gpu_handles) - 1
                  /\ last_call.res.err[3] >= 0)

C10_Step == pc = "ready" => gpu_handles' = gpu_handles

\* C10: a monitor returned by new() has between 1 and 32 handles, no call
\* of get_power_status, get_power_status_vec or gpu_count changes the list,
\* gpu_count() is constant, and the len - 1 of the invalid-index message
\* never underflows.
C10_HandlesFixed == []C10_Handles /\ [][C10_Step]_vars

C10_Witness ==
    /\ pc = "ready"
    /\ last_count = NVAPI_MAX_PHYSICAL_GPUS
    /\ last_call.op = "get_power_status_vec"
    /\ last_call.gpu_index = NVAPI_MAX_PHYSICAL_GPUS
    /\ last_call.res.kind = "err"
    /\ last_call.res.err[3] = NVAPI_MAX_PHYSICAL_GPUS - 1
====
